---- MODULE Spec2Model ----
(***************************************************************************)
(* A model of cvat_reader (src/cvat_reader/_base.py and its video readers):*)
(* Annotation.from_interpolation, Track.get_annotation, and the Dataset    *)
(* with its constructor, seek, seek_first_annotation, __next__ and close,  *)
(* over the CV2Reader and the DummyVideoReader.                            *)
(*                                                                         *)
(* Python values are modelled as follows.  None is the record NoneValue.   *)
(* A float that the code truncates with int() is kept as an exact          *)
(* fraction num/den and truncated toward zero (Trunc): for the frame spans *)
(* and coordinates of this model the double-precision result of the code   *)
(* equals the exact one.  JSON point coordinates are numbers in halves     *)
(* (the integer p stands for p/2), so that int() is a real conversion.     *)
(* An exception raised by an operation is recorded as the operation's      *)
(* outcome in the variable result.                                         *)
(***************************************************************************)
EXTENDS Integers, Sequences, FiniteSets, TLC

VARIABLES
    tracks_in,      \* json_data[0]["tracks"]: the raw track records given to Dataset.__init__
    load_video,     \* the load_video argument of Dataset.__init__
    phase,          \* "new" (not yet constructed), "open" (constructed), "failed" (__init__ raised)
    tracks,         \* Dataset.tracks
    last_frame_id,  \* Dataset.last_frame_id
    video_reader,   \* Dataset.video_reader: a DummyVideoReader or a CV2Reader
    result,         \* what the last Dataset operation returned or raised
    closes,         \* history: how many times Dataset.close() has been called (counted up to 2)
    run,            \* history: the iteration since the last seek (see NewRun)
    call            \* the last direct call of Track.get_annotation / Annotation.from_interpolation

vars == <<tracks_in, load_video, phase, tracks, last_frame_id, video_reader,
          result, closes, run, call>>

(***************************************************************************)
(* Bounds of the model.                                                    *)
(***************************************************************************)
\* Dataset specification: raw input and video
MaxTracks == 2
MaxShapes == 2
MaxFrame == 2
\* Track specification: keyframes per track and their frame ids
MaxKeyframes == 3
MaxKeyFrameId == 4
\* Interpolation specification: frame span and coordinate magnitude
MaxSpan == 3
MaxCoord == 7

(***************************************************************************)
(* Python values                                                           *)
(***************************************************************************)
NoneValue == [kind |-> "None"]

\* int(x) of the float num/den, den # 0: truncation toward zero
Trunc(num, den) ==
    LET n == IF den < 0 THEN -num ELSE num
        d == IF den < 0 THEN -den ELSE den
    IN  IF n >= 0 THEN n \div d ELSE -((-n) \div d)

Range(s) == {s[i] : i \in 1..Len(s)}

(***************************************************************************)
(* Annotation                                                              *)
(***************************************************************************)
Annotation(frame_id, track_id, label, bounding_box, occluded, outside, attributes, interpolated) ==
    [frame_id |-> frame_id, track_id |-> track_id, label |-> label,
     bounding_box |-> bounding_box, occluded |-> occluded, outside |-> outside,
     attributes |-> attributes, interpolated |-> interpolated]

\* The coordinate with the truncation applied to the scaled difference only
InterpolateCoord_truncDiff(b, e, n, m) == b + Trunc((e - b) * n, m)

\* int((end_coord - begin_coord) * relative_offset + begin_coord), with
\* relative_offset = n / m kept exact: the float ((e - b) * n + b * m) / m
InterpolateCoord(b, e, n, m) == Trunc((e - b) * n + b * m, m)

\* Annotation.from_interpolation taking the visibility state from end_annotation
from_interpolation_end(begin_annotation, end_annotation, frame_id) ==
    LET n == frame_id - begin_annotation.frame_id
        m == end_annotation.frame_id - begin_annotation.frame_id
        bb == begin_annotation.bounding_box
        eb == end_annotation.bounding_box
    IN  Annotation(frame_id, begin_annotation.track_id, begin_annotation.label,
            << <<InterpolateCoord(bb[1][1], eb[1][1], n, m),
                 InterpolateCoord(bb[1][2], eb[1][2], n, m)>>,
               <<InterpolateCoord(bb[2][1], eb[2][1], n, m),
                 InterpolateCoord(bb[2][2], eb[2][2], n, m)>> >>,
            end_annotation.occluded, end_annotation.outside,
            end_annotation.attributes, TRUE)

\* Annotation.from_interpolation
from_interpolation(begin_annotation, end_annotation, frame_id) ==
    LET n == frame_id - begin_annotation.frame_id
        m == end_annotation.frame_id - begin_annotation.frame_id
        bb == begin_annotation.bounding_box
        eb == end_annotation.bounding_box
    IN  Annotation(frame_id, begin_annotation.track_id, begin_annotation.label,
            << <<InterpolateCoord(bb[1][1], eb[1][1], n, m),
                 InterpolateCoord(bb[1][2], eb[1][2], n, m)>>,
               <<InterpolateCoord(bb[2][1], eb[2][1], n, m),
                 InterpolateCoord(bb[2][2], eb[2][2], n, m)>> >>,
            begin_annotation.occluded, begin_annotation.outside,
            begin_annotation.attributes, TRUE)

(***************************************************************************)
(* Track                                                                   *)
(***************************************************************************)
Track(track_id, annotations) == [track_id |-> track_id, annotations |-> annotations]

first_frame_id(track) == track.annotations[1].frame_id

track_last_frame_id(track) == track.annotations[Len(track.annotations)].frame_id

\* self.annotations[i - 1] for the 1-based position i: Python's index -1 is the last element
PrevAnnotation(annotations, i) ==
    IF i = 1 THEN annotations[Len(annotations)] ELSE annotations[i - 1]

\* The loop of Track.get_annotation from position i on
RECURSIVE ScanAnnotations(_, _, _)
ScanAnnotations(annotations, i, frame_id) ==
    IF i > Len(annotations) THEN NoneValue
    ELSE IF annotations[i].frame_id = frame_id THEN annotations[i]
    ELSE IF annotations[i].frame_id > frame_id
         THEN from_interpolation(PrevAnnotation(annotations, i), annotations[i], frame_id)
    ELSE ScanAnnotations(annotations, i + 1, frame_id)

\* The loop without the exact-match return: a keyframe is passed over
RECURSIVE ScanAnnotations_noExact(_, _, _)
ScanAnnotations_noExact(annotations, i, frame_id) ==
    IF i > Len(annotations) THEN NoneValue
    ELSE IF annotations[i].frame_id >= frame_id /\ i > 1
         THEN from_interpolation(PrevAnnotation(annotations, i), annotations[i], frame_id)
    ELSE IF annotations[i].frame_id = frame_id THEN annotations[i]
    ELSE ScanAnnotations_noExact(annotations, i + 1, frame_id)

\* Track.get_annotation with the upper range check off by one
get_annotation_offByOne(track, frame_id) ==
    IF frame_id < first_frame_id(track) THEN NoneValue
    ELSE IF frame_id >= track_last_frame_id(track) THEN NoneValue
    ELSE ScanAnnotations(track.annotations, 1, frame_id)

\* Track.get_annotation whose scan interpolates over keyframes
get_annotation_noExact(track, frame_id) ==
    IF frame_id < first_frame_id(track) THEN NoneValue
    ELSE IF frame_id > track_last_frame_id(track) THEN NoneValue
    ELSE ScanAnnotations_noExact(track.annotations, 1, frame_id)

\* Track.get_annotation
get_annotation(track, frame_id) ==
    IF frame_id < first_frame_id(track) THEN NoneValue
    ELSE IF frame_id > track_last_frame_id(track) THEN NoneValue
    ELSE ScanAnnotations(track.annotations, 1, frame_id)

\* The annotations of a track are strictly increasing by frame_id
StrictlyIncreasing(track) ==
    \A i \in 1..(Len(track.annotations) - 1) :
        track.annotations[i].frame_id < track.annotations[i + 1].frame_id

(***************************************************************************)
(* Dataset.__init__                                                        *)
(***************************************************************************)
\* The surviving annotations of one raw track record: its rectangle shapes, in order
BuildAnnotations(track_id, track) ==
    LET rects == SelectSeq(track.shapes, LAMBDA shape : shape.type = "rectangle")
    IN  [i \in 1..Len(rects) |->
            Annotation(rects[i].frame, track_id, track.label,
                << <<Trunc(rects[i].points[1], 2), Trunc(rects[i].points[2], 2)>>,
                   <<Trunc(rects[i].points[3], 2), Trunc(rects[i].points[4], 2)>> >>,
                rects[i].occluded, rects[i].outside, rects[i].attributes, FALSE)]

\* self.tracks after the records at positions i.. of the input (track_id = position - 1)
RECURSIVE BuildTracks(_, _)
BuildTracks(raw, i) ==
    IF i > Len(raw) THEN <<>>
    ELSE LET annotations == BuildAnnotations(i - 1, raw[i])
         IN  (IF annotations # <<>> THEN <<Track(i - 1, annotations)>> ELSE <<>>)
             \o BuildTracks(raw, i + 1)

\* max(track.last_frame_id for track in self.tracks), for a non-empty list
MaxLastFrameId(ts) ==
    CHOOSE m \in {track_last_frame_id(ts[i]) : i \in 1..Len(ts)} :
        \A i \in 1..Len(ts) : track_last_frame_id(ts[i]) <= m

\* min(track.first_frame_id for track in self.tracks), for a non-empty list
MinFirstFrameId(ts) ==
    CHOOSE m \in {first_frame_id(ts[i]) : i \in 1..Len(ts)} :
        \A i \in 1..Len(ts) : m <= first_frame_id(ts[i])

DummyVideoReader == [kind |-> "dummy", frame_id |-> 0]

\* cv2.VideoCapture(video_file): a live capture positioned at frame 0
CV2Reader == [kind |-> "cv2", capture |-> [pos |-> 0]]

NoResult == [op |-> "none", outcome |-> "none", frame |-> NoneValue]

Outcome(op, outcome) == [op |-> op, outcome |-> outcome, frame |-> NoneValue]

\* Dataset.__init__: max() of an empty sequence raises ValueError
DatasetInit ==
    /\ phase = "new"
    /\ LET built == BuildTracks(tracks_in, 1)
       IN  IF built = <<>>
           THEN /\ phase' = "failed"
                /\ result' = Outcome("__init__", "ValueError")
                /\ UNCHANGED <<tracks, last_frame_id, video_reader>>
           ELSE /\ phase' = "open"
                /\ tracks' = built
                /\ video_reader' = IF load_video THEN CV2Reader ELSE DummyVideoReader
                /\ last_frame_id' = MaxLastFrameId(built)
                /\ result' = Outcome("__init__", "ok")
    /\ UNCHANGED <<tracks_in, load_video, closes, run, call>>

(***************************************************************************)
(* The video readers.  An Optional[int] is Some(n) or NoneValue.  The      *)
(* video file holds the frames 0 .. VideoFrames - 1.  A read or a seek     *)
(* returns the set of its possible outcomes.                               *)
(***************************************************************************)
VideoFrames == MaxFrame

Some(n) == [kind |-> "int", value |-> n]

Image(n) == [kind |-> "image", frame |-> n]

Read(reader, frame_id, image, raised) ==
    [reader |-> reader, frame_id |-> frame_id, image |-> image, raised |-> raised]

\* DummyVideoReader.read_frame returning the counter after the increment
DummyVideoReader_read_frame_preIncrement(reader) ==
    {Read([reader EXCEPT !.frame_id = @ + 1], Some(reader.frame_id + 1), NoneValue, "none")}

\* DummyVideoReader.read_frame
DummyVideoReader_read_frame(reader) ==
    {Read([reader EXCEPT !.frame_id = @ + 1], Some(reader.frame_id), NoneValue, "none")}

\* CV2Reader.read_frame: capture.read() succeeds only before the end of the
\* stream, and may fail on a frame it cannot decode; self.capture is None
\* after close(), and None has no get()
CV2Reader_read_frame(reader) ==
    IF reader.capture = NoneValue
    THEN {Read(reader, NoneValue, NoneValue, "AttributeError")}
    ELSE LET pos == reader.capture.pos
         IN  IF pos < VideoFrames
             THEN {Read([reader EXCEPT !.capture.pos = pos + 1], Some(pos), Image(pos), "none"),
                   Read(reader, NoneValue, NoneValue, "none")}
             ELSE {Read(reader, NoneValue, NoneValue, "none")}

read_frame(reader) ==
    IF reader.kind = "dummy" THEN DummyVideoReader_read_frame(reader)
    ELSE CV2Reader_read_frame(reader)

Sought(reader, raised) == [reader |-> reader, raised |-> raised]

\* DummyVideoReader.seek
DummyVideoReader_seek(reader, frame_id) ==
    {Sought([reader EXCEPT !.frame_id = frame_id], "none")}

\* CV2Reader.seek: capture.set(CAP_PROP_POS_FRAMES, frame_id); a position
\* outside the stream leaves the capture at a position OpenCV chooses
CV2Reader_seek(reader, frame_id) ==
    IF reader.capture = NoneValue
    THEN {Sought(reader, "AttributeError")}
    ELSE IF frame_id \in 0..VideoFrames
         THEN {Sought([reader EXCEPT !.capture.pos = frame_id], "none")}
         ELSE {Sought([reader EXCEPT !.capture.pos = p], "none") : p \in 0..VideoFrames}

seek(reader, frame_id) ==
    IF reader.kind = "dummy" THEN DummyVideoReader_seek(reader, frame_id)
    ELSE CV2Reader_seek(reader, frame_id)

\* CV2Reader.close without the check of self.capture
CV2Reader_close_unguarded(reader) ==
    IF reader.capture = NoneValue
    THEN Sought(reader, "AttributeError")
    ELSE Sought([reader EXCEPT !.capture = NoneValue], "none")

\* CV2Reader.close: release the capture once
CV2Reader_close(reader) ==
    IF reader.capture # NoneValue
    THEN Sought([reader EXCEPT !.capture = NoneValue], "none")
    ELSE Sought(reader, "none")

\* VideoReader.close, which DummyVideoReader inherits: pass
VideoReader_close(reader) == Sought(reader, "none")

close(reader) ==
    IF reader.kind = "dummy" THEN VideoReader_close(reader) ELSE CV2Reader_close(reader)

(***************************************************************************)
(* Dataset.__next__                                                        *)
(***************************************************************************)
Frame(frame_id, image, annotations) ==
    [frame_id |-> frame_id, image |-> image, annotations |-> annotations]

\* The annotations of a Frame collected in reverse track order
FrameAnnotations_reversed(ts, frame_id) ==
    SelectSeq([i \in 1..Len(ts) |-> get_annotation(ts[Len(ts) + 1 - i], frame_id)],
              LAMBDA annotation : annotation # NoneValue)

\* [track.get_annotation(frame_id) for track in self.tracks if track], then
\* the annotations that are not None; a Track and an Annotation are truthy
FrameAnnotations(ts, frame_id) ==
    SelectSeq([i \in 1..Len(ts) |-> get_annotation(ts[i], frame_id)],
              LAMBDA annotation : annotation # NoneValue)

\* __next__ with the bound check one frame late
NextResult_late(rd, ts, last) ==
    IF rd.raised # "none" THEN Outcome("next", rd.raised)
    ELSE IF rd.frame_id = NoneValue THEN Outcome("next", "TypeError")
    ELSE IF rd.frame_id.value > last + 1 THEN Outcome("next", "StopIteration")
    ELSE [op |-> "next", outcome |-> "Frame",
          frame |-> Frame(rd.frame_id.value, rd.image,
                          FrameAnnotations(ts, rd.frame_id.value))]

\* What __next__ returns or raises after read_frame() gave rd: None > int
\* raises TypeError
NextResult(rd, ts, last) ==
    IF rd.raised # "none" THEN Outcome("next", rd.raised)
    ELSE IF rd.frame_id = NoneValue THEN Outcome("next", "TypeError")
    ELSE IF rd.frame_id.value > last THEN Outcome("next", "StopIteration")
    ELSE [op |-> "next", outcome |-> "Frame",
          frame |-> Frame(rd.frame_id.value, rd.image,
                          FrameAnnotations(ts, rd.frame_id.value))]


(***************************************************************************)
(* The Dataset's operations as actions                                     *)
(***************************************************************************)
\* The frame ids a caller seeks to: from one before frame 0 up to the last
\* frame an annotation can have
SeekArgs == (-1)..MaxFrame

\* The no-op decoder counts without end: reads stop at this counter value
MaxCounter == MaxFrame + 1

\* The history of an iteration that starts at cursor position frame_id:
\* the frame ids yielded since, what the last read_frame() returned, and
\* whether StopIteration has been raised
Unread == [kind |-> "unread"]

Raised == [kind |-> "raised"]

NewRun(frame_id) == [start |-> frame_id, ids |-> <<>>, read |-> Unread, stopped |-> FALSE]

\* Dataset.seek and the seek inside Dataset.seek_first_annotation
SeekStep(op, frame_id) ==
    \E s \in seek(video_reader, frame_id) :
        /\ video_reader' = s.reader
        /\ result' = Outcome(op, IF s.raised = "none" THEN "ok" ELSE s.raised)
        /\ run' = IF s.raised = "none" THEN NewRun(frame_id) ELSE run

\* Dataset.seek
DatasetSeek(frame_id) ==
    /\ phase = "open"
    /\ SeekStep("seek", frame_id)
    /\ UNCHANGED <<tracks_in, load_video, phase, tracks, last_frame_id, closes, call>>

\* Dataset.seek_first_annotation
DatasetSeekFirstAnnotation ==
    /\ phase = "open"
    /\ SeekStep("seek_first_annotation", MinFirstFrameId(tracks))
    /\ UNCHANGED <<tracks_in, load_video, phase, tracks, last_frame_id, closes, call>>

\* Dataset.__next__
DatasetNext ==
    /\ phase = "open"
    /\ video_reader.kind = "dummy" => video_reader.frame_id <= MaxCounter
    /\ \E rd \in read_frame(video_reader) :
        /\ video_reader' = rd.reader
        /\ result' = NextResult(rd, tracks, last_frame_id)
        /\ run' = [run EXCEPT
                     !.read = IF rd.raised = "none" THEN rd.frame_id ELSE Raised,
                     !.ids = IF result'.outcome = "Frame"
                             THEN Append(@, result'.frame.frame_id) ELSE @,
                     !.stopped = @ \/ result'.outcome = "StopIteration"]
    /\ UNCHANGED <<tracks_in, load_video, phase, tracks, last_frame_id, closes, call>>

\* Dataset.close
DatasetClose ==
    /\ phase = "open"
    /\ LET c == close(video_reader)
       IN  /\ video_reader' = c.reader
           /\ result' = Outcome("close", IF c.raised = "none" THEN "ok" ELSE c.raised)
    /\ closes' = IF closes < 2 THEN closes + 1 ELSE closes
    /\ UNCHANGED <<tracks_in, load_video, phase, tracks, last_frame_id, run, call>>

(***************************************************************************)
(* The raw input of Dataset.__init__: at most MaxTracks track records with *)
(* at most MaxShapes shapes in all.  A shape is a rectangle at a frame     *)
(* 0..MaxFrame or a polygon; its points, visibility flags and attributes   *)
(* are those of its place (track t, position j) in the input.              *)
(***************************************************************************)
Polygon == -1

ShapeKinds == {Polygon} \cup (0..MaxFrame)

RawShape(t, j, kind) ==
    [frame |-> IF kind = Polygon THEN 0 ELSE kind,
     type |-> IF kind = Polygon THEN "polygon" ELSE "rectangle",
     points |-> <<2 * t + 1, 2 * j + 1, 4 * t + 2 * j + 9, 6 * j + 11>>,
     occluded |-> (j % 2 = 1),
     outside |-> (j % 2 = 0),
     attributes |-> [id |-> j]]

\* The track records whose shapes are, in order, those of flat; owner[i] is
\* the track of shape i
RawTracks(n, flat, owner) ==
    [t \in 1..n |->
        LET before == Cardinality({i \in 1..Len(flat) : owner[i] < t})
            count == Cardinality({i \in 1..Len(flat) : owner[i] = t})
        IN  [label |-> IF t % 2 = 1 THEN "car" ELSE "person",
             shapes |-> [j \in 1..count |-> RawShape(t, j, flat[before + j])]]]

NoCall == [fn |-> "none", track |-> 0, begin |-> NoneValue, end |-> NoneValue,
           frame_id |-> 0, result |-> NoneValue]

Init ==
    /\ \E n \in 0..MaxTracks, m \in 0..MaxShapes :
        /\ n > 0 \/ m = 0
        /\ \E flat \in [1..m -> ShapeKinds], owner \in [1..m -> 1..n] :
            /\ \A i \in 1..(m - 1) : owner[i] <= owner[i + 1]
            /\ tracks_in = RawTracks(n, flat, owner)
    /\ load_video \in BOOLEAN
    /\ phase = "new"
    /\ tracks = <<>>
    /\ last_frame_id = NoneValue
    /\ video_reader = NoneValue
    /\ result = NoResult
    /\ closes = 0
    /\ run = NewRun(0)
    /\ call = NoCall

Next ==
    \/ DatasetInit
    \/ \E frame_id \in SeekArgs : DatasetSeek(frame_id)
    \/ DatasetSeekFirstAnnotation
    \/ DatasetNext
    \/ DatasetClose

Spec == Init /\ [][Next]_vars

(***************************************************************************)
(* Track.get_annotation called directly on a track of a constructed        *)
(* Dataset.  The Dataset is built from one track record of 1..MaxKeyframes *)
(* rectangle shapes at frames 0..MaxKeyFrameId in any order, each with one *)
(* of two payloads.                                                        *)
(***************************************************************************)
KeyShape(frame, variant) ==
    [frame |-> frame, type |-> "rectangle",
     points |-> IF variant = 1 THEN <<1, 3, 21, 15>> ELSE <<15, 4, 9, 29>>,
     occluded |-> (variant = 1),
     outside |-> (variant = 2),
     attributes |-> [id |-> variant]]

KeyShapes == {KeyShape(frame, variant) : frame \in 0..MaxKeyFrameId, variant \in 1..2}

QueryFrames == (-1)..(MaxKeyFrameId + 1)

InitTrack ==
    /\ \E k \in 1..MaxKeyframes : \E shapes \in [1..k -> KeyShapes] :
        tracks_in = <<[label |-> "car", shapes |-> shapes]>>
    /\ load_video = FALSE
    /\ phase = "open"
    /\ tracks = BuildTracks(tracks_in, 1)
    /\ last_frame_id = MaxLastFrameId(tracks)
    /\ video_reader = DummyVideoReader
    /\ result = Outcome("__init__", "ok")
    /\ closes = 0
    /\ run = NewRun(0)
    /\ call = NoCall

\* dataset.tracks[i].get_annotation(frame_id)
TrackGetAnnotation(i, frame_id) ==
    /\ phase = "open"
    /\ call' = [fn |-> "get_annotation", track |-> i, begin |-> NoneValue,
                end |-> NoneValue, frame_id |-> frame_id,
                result |-> get_annotation(tracks[i], frame_id)]
    /\ UNCHANGED <<tracks_in, load_video, phase, tracks, last_frame_id,
                   video_reader, result, closes, run>>

NextTrack == \E i \in 1..Len(tracks) : \E frame_id \in QueryFrames : TrackGetAnnotation(i, frame_id)

TrackSpec == InitTrack /\ [][NextTrack]_vars

(***************************************************************************)
(* Annotation.from_interpolation called as Track.get_annotation calls it:  *)
(* on two keyframes at frames 0..MaxSpan with a frame strictly between     *)
(* them, every coordinate of both boxes drawn from Coords.                 *)
(***************************************************************************)
Coords == {-MaxCoord, 0, MaxCoord}

Boxes == {<< <<x1, y1>>, <<x2, y2>> >> : x1 \in Coords, y1 \in Coords, x2 \in Coords, y2 \in Coords}

InitInterpolation ==
    /\ tracks_in = <<>>
    /\ load_video = FALSE
    /\ phase = "new"
    /\ tracks = <<>>
    /\ last_frame_id = NoneValue
    /\ video_reader = NoneValue
    /\ result = NoResult
    /\ closes = 0
    /\ run = NewRun(0)
    /\ \E b \in 0..MaxSpan, e \in 0..MaxSpan, bb \in Boxes, eb \in Boxes :
        /\ b + 1 < e
        /\ call = [NoCall EXCEPT
                     !.begin = Annotation(b, 0, "car", bb, TRUE, FALSE, [id |-> 1], FALSE),
                     !.end = Annotation(e, 0, "car", eb, FALSE, TRUE, [id |-> 2], FALSE)]

\* Annotation.from_interpolation(begin_annotation, end_annotation, frame_id)
FromInterpolation(frame_id) ==
    /\ call.begin.frame_id < frame_id
    /\ frame_id < call.end.frame_id
    /\ call' = [call EXCEPT !.fn = "from_interpolation", !.frame_id = frame_id,
                            !.result = from_interpolation(call.begin, call.end, frame_id)]
    /\ UNCHANGED <<tracks_in, load_video, phase, tracks, last_frame_id,
                   video_reader, result, closes, run>>

NextInterpolation == \E frame_id \in 0..MaxSpan : FromInterpolation(frame_id)

InterpolationSpec == InitInterpolation /\ [][NextInterpolation]_vars

(***************************************************************************)
(* Properties of Track.get_annotation (checked under TrackSpec)            *)
(***************************************************************************)
\* The track and the keyframes of the last get_annotation call
CalledTrack == tracks[call.track]

CalledKeyframes == CalledTrack.annotations

InRange(track, frame_id) ==
    first_frame_id(track) <= frame_id /\ frame_id <= track_last_frame_id(track)

IsKeyframe(track, frame_id) == \E k \in Range(track.annotations) : k.frame_id = frame_id

\* C1: on a track whose annotations are strictly increasing by frame_id,
\* get_annotation(frame_id) returns an Annotation exactly when
\* first_frame_id <= frame_id <= last_frame_id, and None for every other frame_id.
C1_CoverageIffInRange ==
    (call.fn = "get_annotation" /\ StrictlyIncreasing(CalledTrack)) =>
        ((call.result # NoneValue) <=> InRange(CalledTrack, call.frame_id))

\* C1 witness: a query strictly inside a strictly increasing track of several
\* keyframes, at a frame that is no keyframe, has returned an Annotation
C1_Witness ==
    /\ call.fn = "get_annotation"
    /\ StrictlyIncreasing(CalledTrack)
    /\ Len(CalledKeyframes) >= 2
    /\ InRange(CalledTrack, call.frame_id)
    /\ ~IsKeyframe(CalledTrack, call.frame_id)
    /\ call.result # NoneValue

\* C2 as stated: for every track and every keyframe k stored in it,
\* get_annotation(k.frame_id) returns k unmodified, with interpolated = false.
C2_KeyframeReturnedForEveryTrack ==
    call.fn = "get_annotation" =>
        \A k \in Range(CalledKeyframes) :
            k.frame_id = call.frame_id =>
                (call.result = k /\ call.result.interpolated = FALSE)

\* C2 amended: for every track whose annotations are strictly increasing by
\* frame_id and every keyframe k stored in it, get_annotation(k.frame_id)
\* returns k unmodified: interpolated = false and every field equal to k's.
C2_KeyframeReturnedWhenIncreasing ==
    (call.fn = "get_annotation" /\ StrictlyIncreasing(CalledTrack)) =>
        \A k \in Range(CalledKeyframes) :
            k.frame_id = call.frame_id =>
                /\ call.result # NoneValue
                /\ call.result.interpolated = FALSE
                /\ call.result.frame_id = k.frame_id
                /\ call.result.track_id = k.track_id
                /\ call.result.label = k.label
                /\ call.result.bounding_box = k.bounding_box
                /\ call.result.occluded = k.occluded
                /\ call.result.outside = k.outside
                /\ call.result.attributes = k.attributes

\* C2 witness: the query of a keyframe that is neither the first nor the last
\* of a strictly increasing track has returned that keyframe
C2_Witness ==
    /\ call.fn = "get_annotation"
    /\ StrictlyIncreasing(CalledTrack)
    /\ Len(CalledKeyframes) >= 3
    /\ CalledKeyframes[2].frame_id = call.frame_id
    /\ call.result = CalledKeyframes[2]

\* C3: on a strictly increasing track, a query strictly inside the range that
\* is no keyframe interpolates between end = the first keyframe after the
\* query and begin = the keyframe right before end; the result has frame_id =
\* the query, interpolated = true, and track_id, label, occluded, outside and
\* attributes equal to begin's.
C3_InterpolatesBetweenNeighbours ==
    (/\ call.fn = "get_annotation"
     /\ StrictlyIncreasing(CalledTrack)
     /\ InRange(CalledTrack, call.frame_id)
     /\ ~IsKeyframe(CalledTrack, call.frame_id)) =>
        \E i \in 1..(Len(CalledKeyframes) - 1) :
            LET begin == CalledKeyframes[i]
                end == CalledKeyframes[i + 1]
            IN  /\ begin.frame_id < call.frame_id
                /\ call.frame_id < end.frame_id
                /\ \A j \in 1..Len(CalledKeyframes) :
                       CalledKeyframes[j].frame_id > call.frame_id => j >= i + 1
                /\ call.result # NoneValue
                /\ call.result.frame_id = call.frame_id
                /\ call.result.interpolated = TRUE
                /\ call.result.track_id = begin.track_id
                /\ call.result.label = begin.label
                /\ call.result.occluded = begin.occluded
                /\ call.result.outside = begin.outside
                /\ call.result.attributes = begin.attributes
                /\ call.result.bounding_box =
                       from_interpolation(begin, end, call.frame_id).bounding_box

\* C3 witness: an interpolated result between two keyframes that differ in
\* occluded, outside and attributes
C3_Witness ==
    /\ call.fn = "get_annotation"
    /\ StrictlyIncreasing(CalledTrack)
    /\ Len(CalledKeyframes) >= 3
    /\ CalledKeyframes[2].frame_id < call.frame_id
    /\ call.frame_id < CalledKeyframes[3].frame_id
    /\ CalledKeyframes[2].occluded # CalledKeyframes[3].occluded
    /\ CalledKeyframes[2].attributes # CalledKeyframes[3].attributes
    /\ call.result # NoneValue
    /\ call.result.interpolated = TRUE
    /\ call.result.occluded = CalledKeyframes[2].occluded

(***************************************************************************)
(* Properties of Annotation.from_interpolation (checked under              *)
(* InterpolationSpec)                                                      *)
(***************************************************************************)
\* r is the fraction num/den (den > 0) truncated toward zero
IsTruncationOf(r, num, den) ==
    IF num >= 0
    THEN r * den <= num /\ num < (r + 1) * den
    ELSE (r - 1) * den < num /\ num <= r * den

CornerCoords == {<<1, 1>>, <<1, 2>>, <<2, 1>>, <<2, 2>>}

\* C4 as stated: every coordinate of an interpolated box is
\* begin_coord + trunc((end_coord - begin_coord) * t), the truncation toward
\* zero applied to the scaled difference only, whatever the order of
\* begin_coord and end_coord.
C4_TruncatesScaledDifference ==
    call.fn = "from_interpolation" =>
        LET n == call.frame_id - call.begin.frame_id
            m == call.end.frame_id - call.begin.frame_id
        IN  \A c \in CornerCoords :
                LET b == call.begin.bounding_box[c[1]][c[2]]
                    e == call.end.bounding_box[c[1]][c[2]]
                    r == call.result.bounding_box[c[1]][c[2]]
                IN  IsTruncationOf(r - b, (e - b) * n, m)

\* C4 amended: every coordinate of an interpolated box is computed
\* independently as trunc(begin_coord + (end_coord - begin_coord) * t), the
\* truncation toward zero applied to the whole sum.
C4_TruncatesSum ==
    call.fn = "from_interpolation" =>
        LET n == call.frame_id - call.begin.frame_id
            m == call.end.frame_id - call.begin.frame_id
        IN  \A c \in CornerCoords :
                LET b == call.begin.bounding_box[c[1]][c[2]]
                    e == call.end.bounding_box[c[1]][c[2]]
                    r == call.result.bounding_box[c[1]][c[2]]
                IN  IsTruncationOf(r, b * m + (e - b) * n, m)

\* C4 witness: frames 0 and 3 queried at 2; x1 rises from 0 to MaxCoord, y1
\* falls from MaxCoord to 0 and the result lies one below begin + trunc of
\* the scaled difference
C4_Witness ==
    /\ call.fn = "from_interpolation"
    /\ call.begin.frame_id = 0 /\ call.end.frame_id = 3 /\ call.frame_id = 2
    /\ call.begin.bounding_box[1][1] = 0 /\ call.end.bounding_box[1][1] = MaxCoord
    /\ call.result.bounding_box[1][1] = Trunc(2 * MaxCoord, 3)
    /\ call.begin.bounding_box[1][2] = MaxCoord /\ call.end.bounding_box[1][2] = 0
    /\ call.result.bounding_box[1][2] = MaxCoord + Trunc(-2 * MaxCoord, 3) - 1

(***************************************************************************)
(* Properties of the Dataset (checked under Spec)                          *)
(***************************************************************************)
Yielded == result.op = "next" /\ result.outcome = "Frame"

\* C5 as stated: when read_frame() returns a None frame_id (end of stream or
\* a frame that cannot be decoded), __next__ ends the iteration normally and
\* surfaces no error.
C5_EndOfStreamStopsIteration ==
    (result.op = "next" /\ run.read = NoneValue) => result.outcome = "StopIteration"

\* C6: every Frame yielded by next, after any sequence of seek,
\* seek_first_annotation and next, has frame_id <= Dataset.last_frame_id, which
\* is the maximum of last_frame_id over the Dataset's tracks.
C6_NeverBeyondLastFrame ==
    phase = "open" =>
        /\ \A i \in 1..Len(tracks) : track_last_frame_id(tracks[i]) <= last_frame_id
        /\ \E i \in 1..Len(tracks) : track_last_frame_id(tracks[i]) = last_frame_id
        /\ Yielded => \E i \in 1..Len(tracks) :
                          result.frame.frame_id <= track_last_frame_id(tracks[i])
        /\ \A j \in 1..Len(run.ids) : \E i \in 1..Len(tracks) :
               run.ids[j] <= track_last_frame_id(tracks[i])

\* C6 witness: frames were yielded, then the reader produced a frame beyond
\* last_frame_id and next raised StopIteration instead of yielding it
C6_Witness ==
    /\ phase = "open"
    /\ result.op = "next" /\ result.outcome = "StopIteration"
    /\ run.ids # <<>>
    /\ run.read # NoneValue /\ run.read.kind = "int"
    /\ run.read.value > last_frame_id

\* C7: a Frame yielded with frame id f carries, in track order, exactly one
\* Annotation for each track with first_frame_id <= f <= last_frame_id and
\* none for any other track; each equals that track's get_annotation(f) and
\* has frame_id = f.
C7_FrameCarriesCoveringTracks ==
    Yielded =>
        LET f == result.frame.frame_id
            covering == SelectSeq(tracks, LAMBDA track : InRange(track, f))
            annotations == result.frame.annotations
        IN  /\ Len(annotations) = Len(covering)
            /\ \A j \in 1..Len(covering) :
                   /\ annotations[j] = get_annotation(covering[j], f)
                   /\ annotations[j] # NoneValue
                   /\ annotations[j].frame_id = f
                   /\ annotations[j].track_id = covering[j].track_id

\* C7 witness: a Dataset of two tracks has yielded a Frame that carries the
\* annotation of the second track only
C7_Witness ==
    /\ Yielded
    /\ Len(tracks) = 2
    /\ Len(result.frame.annotations) = 1
    /\ result.frame.annotations[1].track_id = tracks[2].track_id
    /\ ~InRange(tracks[1], result.frame.frame_id)

\* The rectangle shapes of raw track record t, in source order
RectangleShapes(t) == SelectSeq(tracks_in[t].shapes, LAMBDA shape : shape.type = "rectangle")

\* C8 as stated, for the inputs that hold a track record: constructing a
\* Dataset never fails because of unsupported shapes: a track record with a
\* rectangle shape is kept with exactly its rectangle shapes in source
\* order, one without is absent from Dataset.tracks, for every input, also
\* one whose tracks hold no rectangle.
C8_ConstructionNeverFails ==
    (phase # "new" /\ Len(tracks_in) >= 1) =>
        /\ phase = "open"
        /\ result.op = "__init__" => result.outcome = "ok"
        /\ \A t \in 1..Len(tracks_in) :
               IF RectangleShapes(t) = <<>>
               THEN \A i \in 1..Len(tracks) : tracks[i].track_id # t - 1
               ELSE \E i \in 1..Len(tracks) :
                       /\ tracks[i].track_id = t - 1
                       /\ Len(tracks[i].annotations) = Len(RectangleShapes(t))
                       /\ \A j \in 1..Len(RectangleShapes(t)) :
                              tracks[i].annotations[j].frame_id = RectangleShapes(t)[j].frame

\* C9: a second and any later close() raises no error and leaves the Dataset
\* in the state the first close() left it in, in any state and with either
\* reader.
C9_CloseIdempotent ==
    [][(closes >= 1 /\ result'.op = "close") =>
          /\ result'.outcome = "ok"
          /\ video_reader' = video_reader
          /\ UNCHANGED <<phase, tracks, last_frame_id, run>>]_vars

\* C9 witness: the CV2Reader's capture is released and a second close()
\* has returned
C9_Witness ==
    /\ closes = 2
    /\ result.op = "close" /\ result.outcome = "ok"
    /\ video_reader.kind = "cv2"
    /\ video_reader.capture = NoneValue
    /\ run.ids # <<>>

(***************************************************************************)
(* load_video = false: the iteration over the DummyVideoReader, with the   *)
(* caller calling next() again and again                                   *)
(***************************************************************************)
InitDummy == Init /\ load_video = FALSE

DummySpec == InitDummy /\ [][Next]_vars /\ WF_vars(DatasetNext)

DummyOpen == phase = "open" /\ video_reader.kind = "dummy"

\* The frame ids first..last in order
FrameIds(first, last) == [j \in 1..(IF last >= first THEN last - first + 1 ELSE 0) |-> first + j - 1]

\* C10: with load_video = false each read returns (counter, None) and adds
\* exactly 1 to the counter, and never signals the end of the stream; from a
\* cursor k set by seek(k), repeated next() yields the frames k, k+1, ...,
\* last_frame_id in order without gaps and then stops, after finitely many
\* steps and only through the frame_id > last_frame_id check.
C10_DummyIteration ==
    /\ [][(DummyOpen /\ result'.op = "next") =>
             /\ run'.read = Some(video_reader.frame_id)
             /\ video_reader'.frame_id = video_reader.frame_id + 1]_vars
    /\ [](DummyOpen =>
             /\ result.op = "next" => result.outcome \in {"Frame", "StopIteration"}
             /\ Yielded => result.frame.image = NoneValue
             /\ \A j \in 1..Len(run.ids) : run.ids[j] = run.start + j - 1
             /\ \A j \in 1..Len(run.ids) : run.ids[j] <= last_frame_id
             /\ run.stopped => /\ run.ids = FrameIds(run.start, last_frame_id)
                               /\ run.read.kind = "int"
                               /\ run.read.value > last_frame_id)
    /\ ((DummyOpen /\ result.op \notin {"seek", "seek_first_annotation"})
            ~> (run.stopped \/ result.op \in {"seek", "seek_first_annotation"}))

\* C10 witness: after a seek to a frame past 0, next() has yielded several
\* frames up to last_frame_id and then stopped
C10_Witness ==
    /\ DummyOpen
    /\ run.start > 0
    /\ Len(run.ids) >= 2
    /\ run.ids[Len(run.ids)] = last_frame_id
    /\ run.stopped
    /\ result.op = "next" /\ result.outcome = "StopIteration"

(***************************************************************************)
(* Closed: close() has been called on the Dataset at least once            *)
(***************************************************************************)
Closed == phase = "open" /\ closes >= 1

\* C11 as stated: Closed is terminal: once close() has been called no later
\* next() yields a Frame, and no later operation makes the video handle
\* live again, with the CV2Reader and with the DummyVideoReader.
C11_ClosedIsTerminal ==
    Closed =>
        /\ ~Yielded
        /\ video_reader.kind = "cv2" => video_reader.capture = NoneValue

====
